---------------------------- MODULE Spec2Model ----------------------------
(***************************************************************************)
(* The screenplay document store of Slavodej (frontend/src/App.tsx, the    *)
(* zustand store `useScriptStore`): the line classifier that replaceLines  *)
(* runs over replacement text, and the edit-history / undo engine.         *)
(*                                                                         *)
(* Text is a sequence of one-character strings, so that split, trim,       *)
(* toUpperCase and the two regular expressions are computed character by   *)
(* character as the JavaScript does.                                       *)
(***************************************************************************)
EXTENDS Integers, Sequences, FiniteSets, TLC

(***************************************************************************)
(* Characters and JavaScript string primitives                             *)
(***************************************************************************)
LowerCase == <<"a", "b", "c", "d", "e", "f", "g", "h", "i", "j", "k", "l", "m", "n", "o", "p", "q", "r", "s", "t", "u", "v", "w", "x", "y", "z">>

UpperCase == <<"A", "B", "C", "D", "E", "F", "G", "H", "I", "J", "K", "L", "M", "N", "O", "P", "Q", "R", "S", "T", "U", "V", "W", "X", "Y", "Z">>

Digits == <<"0", "1", "2", "3", "4", "5", "6", "7", "8", "9">>

Range(f) == {f[i] : i \in DOMAIN f}

SpaceChars == {" ", "\t", "\r", "\n"}

WordChars == Range(LowerCase) \cup Range(UpperCase) \cup Range(Digits) \cup {"_"}

UpperOf == [c \in Range(LowerCase) |-> UpperCase[CHOOSE i \in DOMAIN LowerCase : LowerCase[i] = c]]

\* String.prototype.trim and the regex class \s: the white space of the alphabet
IsSpace(c) == c \in SpaceChars

\* the regex class \w
IsWord(c) == c \in WordChars

\* toUpperCase of one character: letters a-z map to A-Z, the rest is unchanged
ToUpperChar(c) == IF c \in DOMAIN UpperOf THEN UpperOf[c] ELSE c

\* String.prototype.toUpperCase
ToUpperCase(s) == [i \in DOMAIN s |-> ToUpperChar(s[i])]

\* String.prototype.trimStart / trimEnd / trim
RECURSIVE TrimStart(_)
TrimStart(s) == IF s # <<>> /\ IsSpace(s[1]) THEN TrimStart(Tail(s)) ELSE s

RECURSIVE TrimEnd(_)
TrimEnd(s) == IF s # <<>> /\ IsSpace(s[Len(s)]) THEN TrimEnd(SubSeq(s, 1, Len(s) - 1)) ELSE s

Trim(s) == TrimEnd(TrimStart(s))

\* String.prototype.split('\n'): always at least one segment; the segment that
\* starts at `from` ends before the next line feed, or at the end of the string
RECURSIVE SplitFrom(_, _)
SplitFrom(s, from) ==
    LET feeds == {i \in from..Len(s) : s[i] = "\n"}
    IN  IF feeds = {} THEN <<SubSeq(s, from, Len(s))>>
        ELSE LET at == CHOOSE i \in feeds : \A j \in feeds : i <= j
             IN  <<SubSeq(s, from, at - 1)>> \o SplitFrom(s, at + 1)

Split(s) == SplitFrom(s, 1)

\* Array.prototype.join(sep)
RECURSIVE Join(_, _)
Join(parts, sep) ==
    IF Len(parts) = 0 THEN <<>>
    ELSE IF Len(parts) = 1 THEN parts[1]
    ELSE parts[1] \o sep \o Join(Tail(parts), sep)

\* String.prototype.startsWith / endsWith / includes for one character
StartsWithChar(s, c) == Len(s) >= 1 /\ s[1] = c

EndsWithChar(s, c) == Len(s) >= 1 /\ s[Len(s)] = c

IncludesChar(s, c) == \E i \in DOMAIN s : s[i] = c

\* a literal matched at position `at` of s under the regex flag /i
MatchesAtCI(s, at, word) ==
    /\ at >= 1
    /\ at + Len(word) - 1 <= Len(s)
    /\ \A i \in DOMAIN word : ToUpperChar(s[at + i - 1]) = ToUpperChar(word[i])

\* Array.prototype.slice(from, to) with JavaScript's clamping of both indices
SliceIndex(n, k) == IF k < 0 THEN (IF n + k < 0 THEN 0 ELSE n + k) ELSE (IF k > n THEN n ELSE k)

Slice(arr, from, to) ==
    LET a == SliceIndex(Len(arr), from)
        b == SliceIndex(Len(arr), to)
    IN  IF a >= b THEN <<>> ELSE SubSeq(arr, a + 1, b)

\* Array.prototype.slice(from): to the end of the array
SliceFrom(arr, from) == Slice(arr, from, Len(arr))

(***************************************************************************)
(* The line classifier inside replaceLines                                 *)
(***************************************************************************)
SceneHeadingPrefixes ==
    { <<"I", "N", "T", ".">>,
      <<"E", "X", "T", ".">>,
      <<"I", "N", "T", "/", "E", "X", "T", ".">>,
      <<"I", "/", "E", ".">>,
      <<"I", "N", "T", ".", "/", "E", "X", "T", ".">>,
      <<"E", "X", "T", ".", "/", "I", "N", "T", ".">> }

\* /^(INT\.|EXT\.|INT\/EXT\.|I\/E\.|INT\.\/EXT\.|EXT\.\/INT\.)/i
sceneHeadingRe(s) == \E p \in SceneHeadingPrefixes : MatchesAtCI(s, 1, p)

TransitionKeywords ==
    { <<"R", "E", "V", "E", "A", "L">>,
      <<"C", "U", "T", " ", "T", "O">>,
      <<"O", "N", ":">>,
      <<"D", "I", "S", "S", "O", "L", "V", "E", " ", "T", "O">>,
      <<"F", "A", "D", "E">>,
      <<"P", "A", "N", " ", "T", "O">> }

ActionVerbs ==
    { <<"s", "a", "y", "s">>,
      <<"t", "u", "r", "n", "s">>,
      <<"m", "o", "v", "e", "s">>,
      <<"w", "a", "l", "k", "s">>,
      <<"l", "o", "o", "k", "s">>,
      <<"s", "t", "a", "r", "e", "s">>,
      <<"e", "n", "t", "e", "r", "s">>,
      <<"e", "x", "i", "t", "s">> }

\* the alternative [\w\s]+\s+(says|turns|...)\s : s[1..i] is the [\w\s]+ run,
\* s[i+1..j] the \s+ run, the verb starts at j+1 and a \s follows it
SubjectVerbMatch(s) ==
    \E j \in 2..Len(s) :
        /\ IsSpace(s[j])
        /\ \E v \in ActionVerbs :
              /\ MatchesAtCI(s, j + 1, v)
              /\ j + Len(v) + 1 <= Len(s)
              /\ IsSpace(s[j + Len(v) + 1])
        /\ \E i \in 1..(j - 1) :
              /\ \A k \in 1..i : IsWord(s[k]) \/ IsSpace(s[k])
              /\ \A k \in (i + 1)..j : IsSpace(s[k])

\* /^(REVEAL|CUT TO|ON:|DISSOLVE TO|FADE|PAN TO|[\w\s]+\s+(says|...)\s)/i
actionIndicatorRe(s) ==
    \/ \E w \in TransitionKeywords : MatchesAtCI(s, 1, w)
    \/ SubjectVerbMatch(s)

\* the length limit of a character cue
MaxCueLength == 45

NoType == "none"

LineTypes == {"dialogue", "action", "heading", "character", "parenthetical"}


\* optional values: null / undefined is the empty tuple, a value is wrapped
None == <<>>

Some(v) == <<v>>

\* mutation of DetectType: the character rule is tried before the parenthetical rule
DetectType_cueFirst(content, prevType) ==
    LET trimmed == Trim(content)
    IN  IF sceneHeadingRe(trimmed) /\ trimmed = ToUpperCase(trimmed) THEN "heading"
        ELSE IF /\ trimmed = ToUpperCase(trimmed)
                /\ Len(trimmed) <= MaxCueLength
                /\ ~IncludesChar(trimmed, ".") THEN "character"
        ELSE IF StartsWithChar(trimmed, "(") /\ EndsWithChar(trimmed, ")") THEN "parenthetical"
        ELSE IF prevType = "character" \/ prevType = "parenthetical" THEN "dialogue"
        ELSE IF prevType = "dialogue"
             THEN (IF actionIndicatorRe(trimmed) THEN "action" ELSE "dialogue")
        ELSE "action"

\* detectType(content, prevType): the first rule that matches decides
DetectType(content, prevType) ==
    LET trimmed == Trim(content)
    IN  IF sceneHeadingRe(trimmed) /\ trimmed = ToUpperCase(trimmed) THEN "heading"
        ELSE IF StartsWithChar(trimmed, "(") /\ EndsWithChar(trimmed, ")") THEN "parenthetical"
        ELSE IF /\ trimmed = ToUpperCase(trimmed)
                /\ Len(trimmed) <= MaxCueLength
                /\ ~IncludesChar(trimmed, ".") THEN "character"
        ELSE IF prevType = "character" \/ prevType = "parenthetical" THEN "dialogue"
        ELSE IF prevType = "dialogue"
             THEN (IF actionIndicatorRe(trimmed) THEN "action" ELSE "dialogue")
        ELSE "action"

\* mutation of ContentLines: the blank segments are kept
ContentLines_keepsBlank(newContent) == Split(newContent)

\* newContent.split('\n').filter(l => l.trim())
ContentLines(newContent) == SelectSeq(Split(newContent), LAMBDA l : Trim(l) # <<>>)

\* mutation of NewLineObject: the content is stored as it came, not trimmed
NewLineObject_rawContent(content, type) ==
    [type |-> type, content |-> content, original_text |-> content]

\* one ScriptLine of the map callback
NewLineObject(content, type) ==
    [type |-> type, content |-> Trim(content), original_text |-> content]

\* contentLines.map(...) with the rolling prevType
RECURSIVE MapLines(_, _)
MapLines(contentLines, prevType) ==
    IF contentLines = <<>> THEN <<>>
    ELSE LET type == DetectType(Head(contentLines), prevType)
         IN  <<NewLineObject(Head(contentLines), type)>> \o MapLines(Tail(contentLines), type)

\* newLineObjects of replaceLines: prevType starts as null
Classify(newContent) == MapLines(ContentLines(newContent), NoType)

(***************************************************************************)
(* The store                                                               *)
(***************************************************************************)
VARIABLES
    lines,        \* ScriptLine[]
    characters,   \* string[]
    scenes,       \* Scene[]
    fileFormat,   \* 'pdf' | 'fdx' | null
    selection,    \* {text, startIndex, endIndex} | null
    editHistory,  \* EditHistoryEntry[], most recent first
    isLoading,    \* boolean
    error,        \* string | null
    nextId,       \* the number of ids replaceLines has issued (ids are fresh)
    last,         \* the last store call: its name, its arguments, the lines it found
    menu,         \* SelectionMenu: the text and range it offers while it is shown, or null
    panel,        \* RightPanel: prompt, isProcessing, preview, error
    request,      \* the rewrite request awaiting its response, or null
    answered,     \* the rewrite request whose response is the preview, or null
    gesture,      \* the last event a component handled: the handler and its input
    ledger        \* the lines as loaded, the call that put each line of `lines` there
                  \* and, per id issued, what an observer saw of its replaceLines

vars == <<lines, characters, scenes, fileFormat, selection, editHistory, isLoading, error, nextId, last,
          menu, panel, request, answered, gesture, ledger>>

\* the state of the components around the store
ui == <<menu, panel, request, answered, gesture>>

Gesture(handler, input) == [handler |-> handler, input |-> input]

Call(op, args) == [op |-> op, args |-> args, before |-> lines]

\* `Keep last 50 edits`
HistoryLimit == 50

\* the default value of replaceLines' prompt parameter
DefaultPrompt == "Manual edit"

Init ==
    /\ lines = <<>>
    /\ characters = <<>>
    /\ scenes = <<>>
    /\ fileFormat = None
    /\ selection = None
    /\ editHistory = <<>>
    /\ isLoading = FALSE
    /\ error = None
    /\ nextId = 0
    /\ last = [op |-> "create", args |-> <<>>, before |-> <<>>]
    /\ menu = None
    /\ panel = [prompt |-> <<>>, isProcessing |-> FALSE, preview |-> None, error |-> None]
    /\ request = None
    /\ answered = None
    /\ gesture = Gesture("none", <<>>)
    /\ ledger = [loaded |-> <<>>, owner |-> <<>>, edits |-> <<>>]

(***************************************************************************)
(* The store's functions                                                   *)
(***************************************************************************)
\* setScript: set({ lines, characters, scenes, fileFormat, editHistory: [], error: null })
SetScript(newLines, newCharacters, newScenes, newFormat) ==
    /\ lines' = newLines
    /\ characters' = newCharacters
    /\ scenes' = newScenes
    /\ fileFormat' = newFormat
    /\ editHistory' = <<>>
    /\ error' = None
    /\ last' = Call("setScript", [lines |-> newLines, characters |-> newCharacters,
                                   scenes |-> newScenes, fileFormat |-> newFormat])
    /\ UNCHANGED <<selection, isLoading, nextId>>

ClearScript ==
    /\ lines' = <<>>
    /\ characters' = <<>>
    /\ scenes' = <<>>
    /\ fileFormat' = None
    /\ selection' = None
    /\ editHistory' = <<>>
    /\ error' = None
    /\ last' = Call("clearScript", <<>>)
    /\ UNCHANGED <<isLoading, nextId>>

SetSelection(text, startIndex, endIndex) ==
    /\ selection' = Some([text |-> text, startIndex |-> startIndex, endIndex |-> endIndex])
    /\ last' = Call("setSelection", [text |-> text, startIndex |-> startIndex, endIndex |-> endIndex])
    /\ UNCHANGED <<lines, characters, scenes, fileFormat, editHistory, isLoading, error, nextId>>

ClearSelection ==
    /\ selection' = None
    /\ last' = Call("clearSelection", <<>>)
    /\ UNCHANGED <<lines, characters, scenes, fileFormat, editHistory, isLoading, error, nextId>>

\* mutation of OriginalLines: the snapshot misses the last line of the range
OriginalLines_short(ls, startIndex, endIndex) == Slice(ls, startIndex, endIndex)

\* state.lines.slice(startIndex, endIndex + 1)
OriginalLines(ls, startIndex, endIndex) == Slice(ls, startIndex, endIndex + 1)

\* originalLines.map(l => l.content).join('\n')
OriginalText(originalLines) ==
    Join([i \in DOMAIN originalLines |-> originalLines[i].content], <<"\n">>)

\* mutation of SpliceLines: the tail starts at endIndex, one line early
SpliceLines_keepsEnd(ls, startIndex, endIndex, newLineObjects) ==
    Slice(ls, 0, startIndex) \o newLineObjects \o SliceFrom(ls, endIndex)

\* [...state.lines.slice(0, startIndex), ...newLineObjects, ...state.lines.slice(endIndex + 1)]
SpliceLines(ls, startIndex, endIndex, newLineObjects) ==
    Slice(ls, 0, startIndex) \o newLineObjects \o SliceFrom(ls, endIndex + 1)

\* the prompt parameter with its default value
PromptOrDefault(prompt) == IF prompt = None THEN DefaultPrompt ELSE prompt[1]

\* editEntry; the id is fresh, the timestamp is display only
EditEntry(id, originalLines, newLineObjects, startIndex, endIndex, newContent, prompt) ==
    [id |-> id,
     startIndex |-> startIndex,
     endIndex |-> endIndex,
     originalLines |-> originalLines,
     newLines |-> newLineObjects,
     originalText |-> OriginalText(originalLines),
     newText |-> newContent,
     prompt |-> PromptOrDefault(prompt)]

\* mutation of PushHistory: the history is never cut
PushHistory_uncut(editEntry, history) == <<editEntry>> \o history

\* [editEntry, ...state.editHistory].slice(0, 50)
PushHistory(editEntry, history) == Slice(<<editEntry>> \o history, 0, HistoryLimit)

\* mutation of ReplaceLines: the call also clears the selection
ReplaceLines_clearsSelection(startIndex, endIndex, newContent, prompt) ==
    LET newLineObjects == Classify(newContent)
        originalLines == OriginalLines(lines, startIndex, endIndex)
        editEntry == EditEntry(nextId + 1, originalLines, newLineObjects,
                               startIndex, endIndex, newContent, prompt)
    IN  /\ nextId' = nextId + 1
        /\ lines' = SpliceLines(lines, startIndex, endIndex, newLineObjects)
        /\ editHistory' = PushHistory(editEntry, editHistory)
        /\ selection' = None
        /\ last' = Call("replaceLines", [startIndex |-> startIndex, endIndex |-> endIndex,
                                          newContent |-> newContent, prompt |-> prompt,
                                          id |-> nextId + 1])
        /\ UNCHANGED <<characters, scenes, fileFormat, isLoading, error>>

ReplaceLines(startIndex, endIndex, newContent, prompt) ==
    LET newLineObjects == Classify(newContent)
        originalLines == OriginalLines(lines, startIndex, endIndex)
        editEntry == EditEntry(nextId + 1, originalLines, newLineObjects,
                               startIndex, endIndex, newContent, prompt)
    IN  /\ nextId' = nextId + 1
        /\ lines' = SpliceLines(lines, startIndex, endIndex, newLineObjects)
        /\ editHistory' = PushHistory(editEntry, editHistory)
        /\ last' = Call("replaceLines", [startIndex |-> startIndex, endIndex |-> endIndex,
                                          newContent |-> newContent, prompt |-> prompt,
                                          id |-> nextId + 1])
        /\ UNCHANGED <<characters, scenes, fileFormat, selection, isLoading, error>>

\* mutation of FindIndex: an id that is absent finds the newest entry
FindIndex_orNewest(history, editId) ==
    LET hits == {i \in DOMAIN history : history[i].id = editId}
    IN  IF hits = {} THEN (IF history = <<>> THEN -1 ELSE 0)
        ELSE (CHOOSE i \in hits : \A j \in hits : i <= j) - 1

\* state.editHistory.findIndex(e => e.id === editId): 0-based, -1 when absent
FindIndex(history, editId) ==
    LET hits == {i \in DOMAIN history : history[i].id = editId}
    IN  IF hits = {} THEN -1
        ELSE (CHOOSE i \in hits : \A j \in hits : i <= j) - 1

\* mutation of UndoLines: the tail starts after the entry's old range, not after
\* the lines the entry inserted
UndoLines_byRange(ls, edit) ==
    Slice(ls, 0, edit.startIndex) \o edit.originalLines \o SliceFrom(ls, edit.endIndex + 1)

\* mutation of UndoLines: the tail starts one line late
UndoLines_offByOne(ls, edit) ==
    Slice(ls, 0, edit.startIndex) \o edit.originalLines
        \o SliceFrom(ls, edit.startIndex + Len(edit.newLines) + 1)

\* mutation of UndoLines: the head ends one line early
UndoLines_shortHead(ls, edit) ==
    Slice(ls, 0, edit.startIndex - 1) \o edit.originalLines
        \o SliceFrom(ls, edit.startIndex + Len(edit.newLines))

\* mutation of UndoLines: the lines the entry inserted are left in place
UndoLines_keepsNew(ls, edit) ==
    Slice(ls, 0, edit.startIndex) \o edit.originalLines \o SliceFrom(ls, edit.startIndex)

\* the lines undoEdit puts back at edit.startIndex
UndoLines(ls, edit) ==
    Slice(ls, 0, edit.startIndex) \o edit.originalLines
        \o SliceFrom(ls, edit.startIndex + Len(edit.newLines))

\* mutation of RemoveEdit: the entries newer than the one undone go with it
RemoveEdit_andNewer(history, editId) ==
    SubSeq(history, FindIndex(history, editId) + 2, Len(history))

\* state.editHistory.filter(e => e.id !== editId)
RemoveEdit(history, editId) == SelectSeq(history, LAMBDA e : e.id # editId)

\* undoEdit; `last` notes the entry found and, when the call before was the
\* replaceLines that made it, the lines that replaceLines found
UndoEdit(editId) ==
    LET editIndex == FindIndex(editHistory, editId)
    IN  /\ IF editIndex = -1
           THEN /\ UNCHANGED <<lines, editHistory>>
                /\ last' = Call("undoEdit", [editId |-> editId, edit |-> None, replaced |-> None])
           ELSE /\ lines' = UndoLines(lines, editHistory[editIndex + 1])
                /\ editHistory' = RemoveEdit(editHistory, editId)
                /\ last' = Call("undoEdit",
                                [editId |-> editId, edit |-> Some(editHistory[editIndex + 1]),
                                 replaced |-> IF last.op = "replaceLines" /\ last.args.id = editId
                                              THEN Some(last.before) ELSE None])
        /\ UNCHANGED <<characters, scenes, fileFormat, selection, isLoading, error, nextId>>

\* mutation of ClearHistory: the oldest entry is kept
ClearHistory_keepsOldest ==
    /\ editHistory' = IF editHistory = <<>> THEN <<>> ELSE <<editHistory[Len(editHistory)]>>
    /\ last' = Call("clearHistory", <<>>)
    /\ UNCHANGED <<lines, characters, scenes, fileFormat, selection, isLoading, error, nextId>>

ClearHistory ==
    /\ editHistory' = <<>>
    /\ last' = Call("clearHistory", <<>>)
    /\ UNCHANGED <<lines, characters, scenes, fileFormat, selection, isLoading, error, nextId>>

SetLoading(loading) ==
    /\ isLoading' = loading
    /\ last' = Call("setLoading", [isLoading |-> loading])
    /\ UNCHANGED <<lines, characters, scenes, fileFormat, selection, editHistory, error, nextId>>

SetError(err) ==
    /\ error' = err
    /\ last' = Call("setError", [error |-> err])
    /\ UNCHANGED <<lines, characters, scenes, fileFormat, selection, editHistory, isLoading, nextId>>

(***************************************************************************)
(* Inputs                                                                  *)
(***************************************************************************)
\* the number of replaceLines calls of one behaviour
MaxEdits == 2

\* the largest line index passed to replaceLines
MaxIndex == 1

Line(type, content) == [type |-> type, content |-> content, original_text |-> content]

\* what the ingestion step hands to setScript
Scripts ==
    { [lines |-> << Line("character", <<"J", "O">>),
                    Line("dialogue", <<"H", "i">>) >>,
       characters |-> <<"JO">>,
       scenes |-> <<[name |-> "INT. A", lineIndex |-> 0]>>,
       fileFormat |-> Some("fdx")] }

\* what callers pass to replaceLines: a text that holds no line at all, with the
\* prompt omitted; a text of two lines around a blank segment, with a prompt
EditRequests ==
    { [text |-> <<" ", "\n">>, prompt |-> None],
      [text |-> <<"(", "a", ")", "\n", "\n", "G", "o">>, prompt |-> Some("Noir")] }

SelectionTexts == {"picked"}

ErrorMessages == {"File too large."}

\* the ranges passed to replaceLines: both indices from 0..MaxIndex in either
\* order (valid, reversed, or past the end of a shorter document), or a negative start
Ranges == ((0..MaxIndex) \X (0..MaxIndex)) \cup {<<-1, 0>>}

\* the number of replaceLines calls of one behaviour of SpecStore
MaxStoreEdits == 1

(***************************************************************************)
(* The specifications                                                      *)
(***************************************************************************)
LoadScript ==
    /\ \E sc \in Scripts : SetScript(sc.lines, sc.characters, sc.scenes, sc.fileFormat)
    /\ UNCHANGED <<ui, ledger>>

\* an id in the history, an id already issued, or the id not issued yet
Undo ==
    /\ \E id \in 1..(nextId + 1) : UndoEdit(id)
    /\ UNCHANGED <<ui, ledger>>

Replace ==
    /\ nextId < MaxEdits
    /\ \E r \in Ranges : \E q \in EditRequests : ReplaceLines(r[1], r[2], q.text, q.prompt)
    /\ UNCHANGED <<ui, ledger>>

\* the document engine: load a script, replace, undo, clear the history
Next ==
    \/ LoadScript
    \/ Replace
    \/ Undo
    \/ (ClearHistory /\ UNCHANGED <<ui, ledger>>)

Spec == Init /\ [][Next]_vars

\* a selection of lines on screen, as the selection tracker reports it
Select ==
    \E t \in SelectionTexts : \E r \in Ranges :
        /\ 0 <= r[1] /\ r[1] <= r[2] /\ r[2] < Len(lines)
        /\ SetSelection(t, r[1], r[2])
        /\ UNCHANGED <<ui, ledger>>

ReplaceOnce ==
    /\ nextId < MaxStoreEdits
    /\ \E r \in Ranges : \E q \in EditRequests : ReplaceLines(r[1], r[2], q.text, q.prompt)
    /\ UNCHANGED <<ui, ledger>>

Loading ==
    /\ \E b \in BOOLEAN : SetLoading(b)
    /\ UNCHANGED <<ui, ledger>>

Failure ==
    /\ \E m \in ErrorMessages : SetError(Some(m))
    /\ UNCHANGED <<ui, ledger>>

\* every function of the store
NextStore ==
    \/ LoadScript
    \/ (ClearScript /\ UNCHANGED <<ui, ledger>>)
    \/ Select
    \/ (ClearSelection /\ UNCHANGED <<ui, ledger>>)
    \/ ReplaceOnce
    \/ Undo
    \/ (ClearHistory /\ UNCHANGED <<ui, ledger>>)
    \/ Loading
    \/ Failure
    \/ (SetError(None) /\ UNCHANGED <<ui, ledger>>)

SpecStore == Init /\ [][NextStore]_vars

\* the number of replaceLines calls of one behaviour of SpecCap: past HistoryLimit
MaxCapEdits == 60

\* the one-line text every replaceLines call of SpecCap passes
CapText == <<"O", "K">>

CapReplace ==
    /\ nextId < MaxCapEdits
    /\ ReplaceLines(0, 0, CapText, None)
    /\ UNCHANGED <<ui, ledger>>

\* one script edited over and over, the history cleared at any moment
NextCap ==
    \/ (lines = <<>> /\ LoadScript)
    \/ CapReplace
    \/ (ClearHistory /\ UNCHANGED <<ui, ledger>>)

SpecCap == Init /\ [][NextCap]_vars

\* the number of segments of a text handed to the classifier
MaxSegments == 3

Repeat(c, n) == [i \in 1..n |-> c]

\* segments that meet every rule of detectType, alone or after another segment
SegmentWords ==
    { <<"I", "N", "T", ".", " ", "A">>,
      <<"I", "n", "t", ".", " ", "a">>,
      <<"(", "a", ")">>,
      <<"(", "A", ")">>,
      <<"J", "O">>,
      <<"A", ".", "B">>,
      <<"G", "o">>,
      <<"h", "e", " ", "t", "u", "r", "n", "s", " ", "x">>,
      <<"C", "u", "t", " ", "t", "o">>,
      <<" ">>,
      <<" ", "G", "o", "\r">>,
      Repeat("A", MaxCueLength),
      Repeat("A", MaxCueLength + 1) }

RECURSIVE TextsOf(_)
TextsOf(n) ==
    IF n = 1 THEN SegmentWords
    ELSE {t \o <<"\n">> \o w : t \in TextsOf(n - 1), w \in SegmentWords}

ClassifyTexts == UNION {TextsOf(n) : n \in 1..MaxSegments}

ClassifyText ==
    /\ lines # <<>>
    /\ nextId = 0
    /\ \E t \in ClassifyTexts : ReplaceLines(0, 0, t, None)
    /\ UNCHANGED <<ui, ledger>>

\* the classifier run once over one text
NextClassify ==
    \/ (lines = <<>> /\ LoadScript)
    \/ ClassifyText

SpecClassify == Init /\ [][NextClassify]_vars

(***************************************************************************)
(* Properties                                                              *)
(***************************************************************************)
\* replaceLines' precondition on a document ls
ValidRange(ls, startIndex, endIndex) ==
    0 <= startIndex /\ startIndex <= endIndex /\ endIndex < Len(ls)

Contents(ls) == [i \in DOMAIN ls |-> ls[i].content]

Min(a, b) == IF a <= b THEN a ELSE b

\* the segments of a text that are not empty once trimmed
NonBlankSegments(text) == {i \in DOMAIN Split(text) : Trim(Split(text)[i]) # <<>>}

\* the last call was replaceLines and its range was valid for the lines it found
ReplacedValid ==
    /\ last.op = "replaceLines"
    /\ ValidRange(last.before, last.args.startIndex, last.args.endIndex)

\* the last call was an undoEdit that came right after the replaceLines, with a
\* valid range, that made the entry it undid
UndidLastReplace ==
    /\ last.op = "undoEdit"
    /\ last.args.replaced # None
    /\ ValidRange(last.args.replaced[1], last.args.edit[1].startIndex, last.args.edit[1].endIndex)

\* C1: undoEdit(id) called right after the replaceLines (valid range, any text)
\* that created entry id leaves lines equal, content by content, to the lines
\* before that replaceLines.
C1_UndoRoundTrip ==
    UndidLastReplace => Contents(lines) = Contents(last.args.replaced[1])

\* the round trip of a replacement text that classified to no line at all
C1_Witness ==
    /\ UndidLastReplace
    /\ last.args.edit[1].newLines = <<>>
    /\ Len(lines) > Len(last.before)

\* C2: after replaceLines with a valid range the lines are the old lines before
\* startIndex, then the classified text, then the old lines after endIndex; the
\* new entry (the replaced lines, the classified lines, the prompt or 'Manual
\* edit') is the first element of editHistory.
C2_ReplaceSplices ==
    ReplacedValid =>
        LET s == last.args.startIndex
            e == last.args.endIndex
            old == last.before
            new == Classify(last.args.newContent)
        IN  /\ lines = SubSeq(old, 1, s) \o new \o SubSeq(old, e + 2, Len(old))
            /\ editHistory # <<>>
            /\ editHistory[1].id = last.args.id
            /\ editHistory[1].originalLines = SubSeq(old, s + 1, e + 1)
            /\ editHistory[1].newLines = new
            /\ editHistory[1].prompt =
                  (IF last.args.prompt = None THEN "Manual edit" ELSE last.args.prompt[1])

\* a valid replaceLines in the middle of older entries, its prompt omitted
C2_Witness ==
    /\ ReplacedValid
    /\ last.args.prompt = None
    /\ Len(editHistory) >= 2
    /\ last.args.startIndex > 0

\* C3: replaceLines with a valid range changes the number of lines by the number
\* of segments of the text that are non-empty after trimming, minus the number
\* of lines of the range.
C3_LengthChange ==
    ReplacedValid =>
        Len(lines) - Len(last.before) =
            Cardinality(NonBlankSegments(last.args.newContent))
                - (last.args.endIndex - last.args.startIndex + 1)

\* a text with a blank segment between two lines replaces one line
C3_Witness ==
    /\ ReplacedValid
    /\ Cardinality(NonBlankSegments(last.args.newContent)) = 2
    /\ Len(Split(last.args.newContent)) = 3
    /\ Len(lines) = Len(last.before) + 1

\* the index in a history of the entry with a given id (ids are not repeated)
IndexOf(history, editId) == CHOOSE i \in DOMAIN history : history[i].id = editId

Without(history, k) == SubSeq(history, 1, k - 1) \o SubSeq(history, k + 1, Len(history))

\* C4: editHistory never holds more than 50 entries and is ordered newest
\* first: each replaceLines puts its entry at the head, keeps the entries
\* before it in order and drops only what lies beyond the 50th place, so n
\* calls in a row leave the min(n, 50) most recent entries.
C4_HistoryCap ==
    /\ [](/\ Len(editHistory) <= 50
          /\ \A i \in DOMAIN editHistory : \A j \in DOMAIN editHistory :
                i < j => editHistory[i].id > editHistory[j].id)
    /\ [][last'.op = "replaceLines" =>
            /\ Len(editHistory') = Min(Len(editHistory) + 1, 50)
            /\ editHistory'[1].id = last'.args.id
            /\ \A i \in 2..Len(editHistory') : editHistory'[i] = editHistory[i - 1]]_vars

\* 60 calls in a row: the 50 most recent entries are left, ids 60 down to 11
C4_Witness ==
    /\ last.op = "replaceLines"
    /\ nextId = 60
    /\ Len(editHistory) = 50
    /\ \A i \in 1..50 : editHistory[i].id = 61 - i

\* C5: replaceLines called with a range that violates
\* 0 <= startIndex <= endIndex < line count changes neither lines nor editHistory.
C5_InvalidRangeChangesNothing ==
    [][(/\ last'.op = "replaceLines"
        /\ ~ValidRange(lines, last'.args.startIndex, last'.args.endIndex))
       => (lines' = lines /\ editHistory' = editHistory)]_vars

\* C6: every entry of editHistory has as many original lines as its range holds.
C6_SnapshotLength ==
    \A i \in DOMAIN editHistory :
        Len(editHistory[i].originalLines) = editHistory[i].endIndex - editHistory[i].startIndex + 1

\* C7: after setScript the store holds the given lines, characters, scenes and
\* format, the selection is null, editHistory is empty and error is null.
C7_SetScriptResets ==
    last.op = "setScript" =>
        /\ lines = last.args.lines
        /\ characters = last.args.characters
        /\ scenes = last.args.scenes
        /\ fileFormat = last.args.fileFormat
        /\ selection = None
        /\ editHistory = <<>>
        /\ error = None

\* C8: undoEdit with an id that is not in editHistory changes no field of the
\* store (so a second undo of the same id changes nothing).
C8_UnknownIdIsNoOp ==
    [][(/\ last'.op = "undoEdit"
        /\ \A i \in DOMAIN editHistory : editHistory[i].id # last'.args.editId)
       => UNCHANGED <<lines, characters, scenes, fileFormat, selection, editHistory,
                      isLoading, error>>]_vars

\* undoEdit of an id that was issued and is gone, called with a selection set
C8_Witness ==
    /\ last.op = "undoEdit"
    /\ last.args.edit = None
    /\ last.args.editId <= nextId
    /\ selection # None

\* C9: undoEdit with an id that is in editHistory removes that entry and no
\* other; the entries left keep their order and none has that id.
C9_UndoConsumesEntry ==
    [][(/\ last'.op = "undoEdit"
        /\ \E i \in DOMAIN editHistory : editHistory[i].id = last'.args.editId)
       => /\ editHistory' = Without(editHistory, IndexOf(editHistory, last'.args.editId))
          /\ \A j \in DOMAIN editHistory' : editHistory'[j].id # last'.args.editId]_vars

\* the older of two entries is undone and the newer one stays
C9_Witness ==
    /\ last.op = "undoEdit"
    /\ last.args.edit # None
    /\ editHistory # <<>>
    /\ last.args.edit[1].id < editHistory[1].id

\* the text has no lower-case letter
IsUpperCase(text) == \A i \in DOMAIN text : text[i] \notin Range(LowerCase)

HasHeadingPrefix(text) ==
    \E p \in SceneHeadingPrefixes :
        Len(text) >= Len(p) /\ ToUpperCase(SubSeq(text, 1, Len(p))) = p

\* the classification rules in their order, each with whether it matches
RuleTable(text, prev) ==
    << <<HasHeadingPrefix(text) /\ IsUpperCase(text), "heading">>,
       <<text # <<>> /\ Head(text) = "(" /\ text[Len(text)] = ")", "parenthetical">>,
       <<IsUpperCase(text) /\ Len(text) <= 45 /\ "." \notin Range(text), "character">>,
       <<prev \in {"character", "parenthetical"}, "dialogue">>,
       <<prev = "dialogue" /\ actionIndicatorRe(text), "action">>,
       <<prev = "dialogue", "dialogue">>,
       <<TRUE, "action">> >>

FirstMatch(table) ==
    table[CHOOSE i \in DOMAIN table : table[i][1] /\ \A j \in 1..(i - 1) : ~table[j][1]][2]

\* C10: every line the classifier emits has the type of the first rule that
\* matches it, the previous type being the type given to the line emitted
\* before it in the same run and none for the first line.
C10_FirstRuleWins ==
    last.op = "replaceLines" =>
        LET new == editHistory[1].newLines
        IN  \A i \in DOMAIN new :
                new[i].type = FirstMatch(RuleTable(new[i].content,
                                                   IF i = 1 THEN "none" ELSE new[i - 1].type))

\* an upper-case parenthetical (it meets the character rule too), then dialogue,
\* then a line the action-indicator pattern takes out of the dialogue
C10_Witness ==
    /\ last.op = "replaceLines"
    /\ Len(editHistory[1].newLines) = 3
    /\ editHistory[1].newLines[1].type = "parenthetical"
    /\ IsUpperCase(editHistory[1].newLines[1].content)
    /\ editHistory[1].newLines[2].type = "dialogue"
    /\ editHistory[1].newLines[3].type = "action"
    /\ actionIndicatorRe(editHistory[1].newLines[3].content)

(***************************************************************************)
(* The worked example of replaceLines and undoEdit                         *)
(***************************************************************************)
\* a script whose line at index 2 is a single dialogue line
ExampleScript ==
    [lines |-> << Line("heading", <<"I", "N", "T", ".", " ", "A">>),
                  Line("character", <<"J", "O">>),
                  Line("dialogue", <<"H", "i">>),
                  Line("action", <<"G", "o">>) >>,
     characters |-> <<"JO">>,
     scenes |-> <<[name |-> "INT. A", lineIndex |-> 0]>>,
     fileFormat |-> Some("pdf")]

\* "Fine. Let's go.\nCUT TO:\nEXT. STREET - NIGHT"
ExampleText == 
    <<"F", "i", "n", "e", ".", " ", "L", "e", "t", "'", "s", " ", "g", "o", ".", "\n", "C", "U", "T", " ", "T", "O", ":", "\n", "E", "X", "T", ".", " ", "S", "T", "R", "E", "E", "T", " ", "-", " ", "N", "I", "G", "H", "T">>

ExampleTexts == {ExampleText, CapText}

ExampleRanges == {<<2, 2>>, <<0, 0>>, <<1, 2>>}

LoadExample ==
    /\ lines = <<>>
    /\ SetScript(ExampleScript.lines, ExampleScript.characters, ExampleScript.scenes,
                 ExampleScript.fileFormat)
    /\ UNCHANGED <<ui, ledger>>

ExampleReplace ==
    /\ nextId < MaxEdits
    /\ \E r \in ExampleRanges : \E t \in ExampleTexts : ReplaceLines(r[1], r[2], t, None)
    /\ UNCHANGED <<ui, ledger>>

\* the example script, edited and undone
NextExample ==
    \/ LoadExample
    \/ ExampleReplace
    \/ Undo

SpecExample == Init /\ [][NextExample]_vars

Types(ls) == [i \in DOMAIN ls |-> ls[i].type]

\* C11: replacing lines [2,2], a single dialogue line, with the text
\* "Fine. Let's go.\nCUT TO:\nEXT. STREET - NIGHT" inserts three lines of types
\* [dialogue, action or heading, heading], and undoEdit on that entry puts the
\* single dialogue line back at index 2.
C11_ExampleTypes ==
    /\ (/\ last.op = "replaceLines"
        /\ last.args.startIndex = 2 /\ last.args.endIndex = 2
        /\ last.args.newContent = ExampleText
        /\ Len(last.before) > 2
        /\ last.before[3].type = "dialogue")
       => /\ Len(lines) = Len(last.before) + 2
          /\ Types(SubSeq(lines, 3, 5)) \in { <<"dialogue", "action", "heading">>,
                                              <<"dialogue", "heading", "heading">> }
    /\ (/\ last.op = "undoEdit"
        /\ last.args.replaced # None
        /\ last.args.edit[1].startIndex = 2 /\ last.args.edit[1].endIndex = 2
        /\ last.args.edit[1].newText = ExampleText
        /\ Len(last.args.replaced[1]) > 2
        /\ last.args.replaced[1][3].type = "dialogue")
       => lines = last.args.replaced[1]

(***************************************************************************)
(* The lines the classifier emits                                          *)
(***************************************************************************)
\* a string without its leading and trailing white space
Stripped(seg) ==
    LET inked == {i \in DOMAIN seg : seg[i] \notin {" ", "\t", "\r", "\n"}}
    IN  IF inked = {} THEN <<>>
        ELSE SubSeq(seg, CHOOSE i \in inked : \A j \in inked : i <= j,
                         CHOOSE i \in inked : \A j \in inked : j <= i)

\* the lines expected of a sequence of segments: one for each segment that is
\* not blank, in order, as the pair of its stripped and its raw text
RECURSIVE ExpectedLines(_)
ExpectedLines(segs) ==
    IF segs = <<>> THEN <<>>
    ELSE LET seg == Head(segs)
             ink == Stripped(seg)
         IN  (IF ink = <<>> THEN <<>> ELSE << <<ink, seg>> >>) \o ExpectedLines(Tail(segs))

\* C12: the classifier emits exactly one line per newline-separated segment
\* that is non-empty after trimming, in input order, and none for the other
\* segments; the content of each line is the trimmed segment and its
\* original_text the segment as it came.
C12_OneLinePerSegment ==
    last.op = "replaceLines" =>
        LET new == editHistory[1].newLines
        IN  [k \in DOMAIN new |-> <<new[k].content, new[k].original_text>>]
                = ExpectedLines(Split(last.args.newContent))

\* a blank segment between two lines, the second with white space around it
C12_Witness ==
    /\ last.op = "replaceLines"
    /\ Len(Split(last.args.newContent)) = 3
    /\ Len(editHistory[1].newLines) = 2
    /\ Trim(Split(last.args.newContent)[2]) = <<>>
    /\ editHistory[1].newLines[2].content # editHistory[1].newLines[2].original_text

(***************************************************************************)
(* What replaceLines, undoEdit and clearHistory leave alone                *)
(***************************************************************************)
\* C13: replaceLines and undoEdit change only lines and editHistory: the
\* selection is neither cleared nor re-mapped, and scenes (every lineIndex
\* included), characters, fileFormat, isLoading and error stay as they were.
C13_EditsChangeOnlyLinesAndHistory ==
    [][last'.op \in {"replaceLines", "undoEdit"}
       => UNCHANGED <<selection, scenes, characters, fileFormat, isLoading, error>>]_vars

\* an entry undone while a selection, a scene, an error and isLoading are set
C13_Witness ==
    /\ last.op = "undoEdit"
    /\ last.args.edit # None
    /\ lines # last.before
    /\ selection # None
    /\ scenes # <<>>
    /\ isLoading
    /\ error # None

\* C14: clearHistory empties editHistory from any state and leaves lines,
\* selection, scenes and characters as they were; an undoEdit after it, for
\* any id issued before, changes nothing.
C14_ClearHistoryKeepsLines ==
    [][/\ last'.op = "clearHistory"
          => /\ editHistory' = <<>>
             /\ UNCHANGED <<lines, selection, scenes, characters>>
       /\ (last.op = "clearHistory" /\ last'.op = "undoEdit")
          => /\ last'.args.edit = None
             /\ UNCHANGED <<lines, editHistory>>]_vars

\* clearHistory on a document that an edit has made one line longer, with a
\* selection set
C14_Witness ==
    /\ last.op = "clearHistory"
    /\ nextId = 1
    /\ Len(lines) = 3
    /\ editHistory = <<>>
    /\ selection # None

(***************************************************************************)
(* The selection tracker: ScriptViewer's Ctrl+L and the SelectionMenu      *)
(***************************************************************************)
Max(a, b) == IF a >= b THEN a ELSE b

\* mutation of SelectedRange: the endpoints are stored in the order of the drag
SelectedRange_asDragged(a, b) == [start |-> a, end |-> b]

\* { start: Math.min(startIndex, endIndex), end: Math.max(startIndex, endIndex) }
SelectedRange(a, b) == [start |-> Min(a, b), end |-> Max(a, b)]

\* a script of five lines
TrackerScript ==
    [lines |-> ExampleScript.lines \o <<Line("dialogue", <<"H", "i">>)>>,
     characters |-> <<"JO">>,
     scenes |-> <<[name |-> "INT. A", lineIndex |-> 0]>>,
     fileFormat |-> Some("pdf")]

\* window.getSelection().toString() of a selection that is not collapsed
WindowTexts == { <<" ">>, <<"H", "i">> }

\* the lines of the script the user drags over
DraggedLines == {0, 2, 4}

\* closest('[data-line-index]') of an endpoint: the index of a rendered line, or null
Endpoints == {None} \cup {Some(i) : i \in {j \in DraggedLines : j < Len(lines)}}

\* the browser's selection: a collapsed selection has no text
WindowSelections ==
    {w \in [isCollapsed : BOOLEAN, text : WindowTexts \cup {<<>>},
            startEl : Endpoints, endEl : Endpoints] :
        w.isCollapsed <=> w.text = <<>>}

\* ScriptViewer's handleKeyDown for Ctrl+L / Cmd+L
HandleKeyDown(w) ==
    /\ IF ~w.isCollapsed /\ w.startEl # None /\ w.endEl # None
       THEN SetSelection(w.text, SelectedRange(w.startEl[1], w.endEl[1]).start,
                                 SelectedRange(w.startEl[1], w.endEl[1]).end)
       ELSE UNCHANGED <<lines, characters, scenes, fileFormat, selection, editHistory,
                        isLoading, error, nextId, last>>
    /\ UNCHANGED menu

\* SelectionMenu's handleMouseUp (the body of its timeout): the menu is shown
\* with the text and the range, or hidden
HandleMouseUp(w) ==
    /\ lines # <<>>
    /\ menu' = IF w.isCollapsed \/ Trim(w.text) = <<>> \/ w.startEl = None \/ w.endEl = None
               THEN None
               ELSE Some([text |-> w.text,
                          range |-> SelectedRange(w.startEl[1], w.endEl[1])])
    /\ UNCHANGED <<lines, characters, scenes, fileFormat, selection, editHistory,
                   isLoading, error, nextId, last>>

\* SelectionMenu's handleMouseDown outside the menu, and handleScroll
HandleMouseDown ==
    /\ lines # <<>>
    /\ menu' = None
    /\ UNCHANGED <<lines, characters, scenes, fileFormat, selection, editHistory,
                   isLoading, error, nextId, last>>

\* SelectionMenu's handleAddToChat: the button exists while the menu is shown
HandleAddToChat ==
    /\ lines # <<>>
    /\ menu # None
    /\ menu[1].text # <<>>
    /\ SetSelection(menu[1].text, menu[1].range.start, menu[1].range.end)
    /\ menu' = None

KeyDown ==
    \E w \in WindowSelections :
        /\ HandleKeyDown(w)
        /\ gesture' = Gesture("handleKeyDown", w)
        /\ UNCHANGED <<panel, request, answered, ledger>>

MouseUp ==
    \E w \in WindowSelections :
        /\ HandleMouseUp(w)
        /\ gesture' = Gesture("handleMouseUp", w)
        /\ UNCHANGED <<panel, request, answered, ledger>>

MouseDown ==
    /\ HandleMouseDown
    /\ gesture' = Gesture("handleMouseDown", <<>>)
    /\ UNCHANGED <<panel, request, answered, ledger>>

AddToChat ==
    /\ HandleAddToChat
    /\ gesture' = Gesture("handleAddToChat", menu[1])
    /\ UNCHANGED <<panel, request, answered, ledger>>

\* the upload of the script; Upload is rendered while there are no lines
OpenScript ==
    /\ lines = <<>>
    /\ SetScript(TrackerScript.lines, TrackerScript.characters, TrackerScript.scenes,
                 TrackerScript.fileFormat)
    /\ gesture' = Gesture("handleFileUpload", <<>>)
    /\ UNCHANGED <<menu, panel, request, answered, ledger>>

\* `Close script`: with no lines left the SelectionMenu is unmounted
CloseScript ==
    /\ lines # <<>>
    /\ ClearScript
    /\ menu' = None
    /\ gesture' = Gesture("clearScript", <<>>)
    /\ UNCHANGED <<panel, request, answered, ledger>>

NextTracker ==
    \/ OpenScript
    \/ CloseScript
    \/ KeyDown
    \/ MouseUp
    \/ MouseDown
    \/ AddToChat

SpecTracker == Init /\ [][NextTracker]_vars

\* the event handled last had an endpoint outside every tagged line
Untagged(g) ==
    /\ g.handler \in {"handleKeyDown", "handleMouseUp"}
    /\ g.input.startEl = None \/ g.input.endEl = None

\* the event handled last had both endpoints inside tagged lines
Tagged(g) ==
    /\ g.handler \in {"handleKeyDown", "handleMouseUp"}
    /\ ~g.input.isCollapsed
    /\ g.input.startEl # None /\ g.input.endEl # None

Lowest(a, b) == CHOOSE m \in {a, b} : m <= a /\ m <= b

Highest(a, b) == CHOOSE m \in {a, b} : m >= a /\ m >= b

\* C17: the selection tracker maps two endpoint line indices a and b to the
\* range from min(a, b) to max(a, b), so every selection it stores has
\* startIndex <= endIndex; when an endpoint has no ancestor with a line-index
\* tag the selection in the store is left as it was and no error is set.
C17_TrackedRange ==
    /\ [](selection # None => selection[1].startIndex <= selection[1].endIndex)
    /\ [][/\ (gesture'.handler = "handleKeyDown" /\ Tagged(gesture'))
             => /\ selection' # None
                /\ selection'[1].startIndex = Lowest(gesture'.input.startEl[1], gesture'.input.endEl[1])
                /\ selection'[1].endIndex = Highest(gesture'.input.startEl[1], gesture'.input.endEl[1])
          /\ (gesture'.handler = "handleMouseUp" /\ Tagged(gesture') /\ menu' # None)
             => /\ menu'[1].range.start = Lowest(gesture'.input.startEl[1], gesture'.input.endEl[1])
                /\ menu'[1].range.end = Highest(gesture'.input.startEl[1], gesture'.input.endEl[1])
          /\ gesture'.handler = "handleAddToChat"
             => /\ selection' # None
                /\ selection'[1].startIndex = menu[1].range.start
                /\ selection'[1].endIndex = menu[1].range.end
          /\ Untagged(gesture') => UNCHANGED <<selection, error, last>>]_vars

\* a reverse drag from line 4 to line 2 taken with Ctrl+L
C17_Witness ==
    /\ gesture.handler = "handleKeyDown"
    /\ gesture.input.startEl = Some(4)
    /\ gesture.input.endEl = Some(2)
    /\ selection # None
    /\ selection[1].startIndex = 2
    /\ selection[1].endIndex = 4

(***************************************************************************)
(* The editor: RightPanel, EditHistory, Upload and the close button        *)
(***************************************************************************)
\* the number of edits applied in one behaviour of SpecEditor
MaxEditorEdits == 2

\* what the user types into the instruction box, and the prompt of a preset
TypedPrompts == { <<" ">>, <<"N", "o", "i", "r">> }

PresetPrompts == { <<"D", "r", "a", "m", "a">> }

\* response.data.rewritten_text
RewriteTexts == { <<"(", "a", ")", "\n", "\n", "G", "o">> }

RewriteErrors == {"An error occurred. Please try again."}

\* the fallback of handleApply: prompt || 'Style preset'
StylePresetPrompt == "Style preset"

\* a request as it was sent: the selection and the lines it was made for, the
\* prompt, and whether the user has given it up since
RewriteRequest(promptToUse) ==
    [selection |-> selection[1], lines |-> lines, prompt |-> promptToUse, abandoned |-> FALSE]

\* the request in flight, if any, is given up
Abandon ==
    request' = IF request = None THEN None ELSE Some([request[1] EXCEPT !.abandoned = TRUE])

\* the SelectionMenu is mounted only while there are lines
Remount == menu' = IF lines' = <<>> THEN None ELSE menu

\* the instruction box: rendered without a preview, disabled without a selection
SetPrompt(text) ==
    /\ panel.preview = None
    /\ selection # None
    /\ panel' = [panel EXCEPT !.prompt = text]
    /\ UNCHANGED <<lines, characters, scenes, fileFormat, selection, editHistory,
                   isLoading, error, nextId, last, menu, request, answered>>

\* handleRewrite up to its await; customPrompt is the preset's prompt or null
HandleRewrite(customPrompt) ==
    LET promptToUse == IF customPrompt = None \/ customPrompt[1] = <<>>
                       THEN panel.prompt ELSE customPrompt[1]
    IN  /\ panel.preview = None
        /\ ~panel.isProcessing
        /\ Trim(promptToUse) # <<>>
        /\ selection # None
        /\ panel' = [panel EXCEPT !.isProcessing = TRUE, !.error = None,
                                  !.prompt = IF customPrompt = None THEN @ ELSE customPrompt[1]]
        /\ request' = Some(RewriteRequest(promptToUse))
        /\ UNCHANGED <<lines, characters, scenes, fileFormat, selection, editHistory,
                       isLoading, error, nextId, last, menu, answered>>

\* handleRewrite after its await: the response sets the preview
RewriteResolved(text) ==
    /\ request # None
    /\ panel' = [panel EXCEPT !.preview = Some(text), !.isProcessing = FALSE]
    /\ answered' = request
    /\ request' = None
    /\ UNCHANGED <<lines, characters, scenes, fileFormat, selection, editHistory,
                   isLoading, error, nextId, last, menu>>

\* handleRewrite after its await: the call failed
RewriteRejected(message) ==
    /\ request # None
    /\ panel' = [panel EXCEPT !.error = Some(message), !.isProcessing = FALSE]
    /\ request' = None
    /\ UNCHANGED <<lines, characters, scenes, fileFormat, selection, editHistory,
                   isLoading, error, nextId, last, menu, answered>>

\* handleApply: replaceLines for the selection as it is now, then clearSelection
HandleApply ==
    LET startIndex == selection[1].startIndex
        endIndex == selection[1].endIndex
        newContent == panel.preview[1]
        prompt == IF panel.prompt = <<>> THEN StylePresetPrompt ELSE panel.prompt
        newLineObjects == Classify(newContent)
        originalLines == OriginalLines(lines, startIndex, endIndex)
        editEntry == EditEntry(nextId + 1, originalLines, newLineObjects,
                               startIndex, endIndex, newContent, Some(prompt))
    IN  /\ panel.preview # None
        /\ panel.preview[1] # <<>>
        /\ selection # None
        /\ nextId' = nextId + 1
        /\ lines' = SpliceLines(lines, startIndex, endIndex, newLineObjects)
        /\ editHistory' = PushHistory(editEntry, editHistory)
        /\ selection' = None
        /\ panel' = [panel EXCEPT !.preview = None, !.prompt = <<>>]
        /\ answered' = None
        /\ last' = Call("handleApply", [startIndex |-> startIndex, endIndex |-> endIndex,
                                         newContent |-> newContent, prompt |-> prompt,
                                         id |-> nextId + 1, request |-> answered[1]])
        /\ Remount
        /\ UNCHANGED <<characters, scenes, fileFormat, isLoading, error, request>>

HandleDiscard ==
    /\ panel.preview # None
    /\ panel' = [panel EXCEPT !.preview = None]
    /\ answered' = None
    /\ UNCHANGED <<lines, characters, scenes, fileFormat, selection, editHistory,
                   isLoading, error, nextId, last, menu, request>>

\* the bin beside `Selected Text`, rendered while there is a selection
HandleClearSelection ==
    /\ selection # None
    /\ ClearSelection
    /\ panel' = [panel EXCEPT !.preview = None, !.prompt = <<>>, !.error = None]
    /\ answered' = None
    /\ Abandon
    /\ UNCHANGED menu

DismissError ==
    /\ panel.error # None
    /\ panel' = [panel EXCEPT !.error = None]
    /\ UNCHANGED <<lines, characters, scenes, fileFormat, selection, editHistory,
                   isLoading, error, nextId, last, menu, request, answered>>

\* handleFileUpload up to its await; the input is disabled while isLoading
UploadStarted ==
    /\ lines = <<>>
    /\ ~isLoading
    /\ isLoading' = TRUE
    /\ error' = None
    /\ last' = Call("setError", [error |-> None])
    /\ UNCHANGED <<lines, characters, scenes, fileFormat, selection, editHistory, nextId>>

\* handleFileUpload for a file over the size limit
UploadRefused(message) ==
    /\ lines = <<>>
    /\ ~isLoading
    /\ SetError(Some(message))

\* handleFileUpload after its await: setScript, then setLoading(false)
UploadResolved(sc) ==
    /\ isLoading
    /\ lines' = sc.lines
    /\ characters' = sc.characters
    /\ scenes' = sc.scenes
    /\ fileFormat' = sc.fileFormat
    /\ editHistory' = <<>>
    /\ error' = None
    /\ isLoading' = FALSE
    /\ last' = [op |-> "setLoading", args |-> [isLoading |-> FALSE], before |-> sc.lines]
    /\ UNCHANGED <<selection, nextId>>

\* handleFileUpload after its await: setError, then setLoading(false)
UploadRejected(message) ==
    /\ isLoading
    /\ error' = Some(message)
    /\ isLoading' = FALSE
    /\ last' = Call("setLoading", [isLoading |-> FALSE])
    /\ UNCHANGED <<lines, characters, scenes, fileFormat, selection, editHistory, nextId>>

\* the actions of SpecEditor
StartUpload == UploadStarted /\ UNCHANGED <<ui, ledger>>

RefuseUpload ==
    /\ \E m \in ErrorMessages : UploadRefused(m)
    /\ UNCHANGED <<ui, ledger>>

ResolveUpload ==
    /\ \E sc \in Scripts : UploadResolved(sc)
    /\ UNCHANGED <<ui, ledger>>

RejectUpload ==
    /\ \E m \in ErrorMessages : UploadRejected(m)
    /\ UNCHANGED <<ui, ledger>>

Close ==
    /\ lines # <<>>
    /\ ClearScript
    /\ menu' = None
    /\ Abandon
    /\ UNCHANGED <<panel, answered, gesture, ledger>>

\* a selection taken with Ctrl+L: a change of the selection gives up the request
PressCtrlL ==
    \E w \in WindowSelections :
        /\ w.text \in {<<>>, <<"H", "i">>}
        /\ HandleKeyDown(w)
        /\ IF selection' # selection THEN Abandon ELSE UNCHANGED request
        /\ UNCHANGED <<panel, answered, gesture, ledger>>

Type ==
    /\ \E text \in TypedPrompts : SetPrompt(text)
    /\ UNCHANGED <<gesture, ledger>>

Rewrite == HandleRewrite(None) /\ UNCHANGED <<gesture, ledger>>

\* handleStylePreset
StylePreset ==
    /\ \E preset \in PresetPrompts : HandleRewrite(Some(preset))
    /\ UNCHANGED <<gesture, ledger>>

ResolveRewrite ==
    /\ \E text \in RewriteTexts : RewriteResolved(text)
    /\ UNCHANGED <<gesture, ledger>>

RejectRewrite ==
    /\ \E m \in RewriteErrors : RewriteRejected(m)
    /\ UNCHANGED <<gesture, ledger>>

Apply ==
    /\ nextId < MaxEditorEdits
    /\ HandleApply
    /\ UNCHANGED <<gesture, ledger>>

Discard == HandleDiscard /\ UNCHANGED <<gesture, ledger>>

ClearPicked == HandleClearSelection /\ UNCHANGED <<gesture, ledger>>

Dismiss == DismissError /\ UNCHANGED <<gesture, ledger>>

\* the undo button of an entry of the history
UndoEntry ==
    /\ \E i \in DOMAIN editHistory : UndoEdit(editHistory[i].id)
    /\ Remount
    /\ UNCHANGED <<panel, request, answered, gesture, ledger>>

\* `Clear all`, rendered while the history has entries
ClearAll ==
    /\ editHistory # <<>>
    /\ ClearHistory
    /\ UNCHANGED <<ui, ledger>>

NextEditor ==
    \/ StartUpload
    \/ RefuseUpload
    \/ ResolveUpload
    \/ RejectUpload
    \/ Close
    \/ PressCtrlL
    \/ Type
    \/ Rewrite
    \/ StylePreset
    \/ ResolveRewrite
    \/ RejectRewrite
    \/ Apply
    \/ Discard
    \/ ClearPicked
    \/ Dismiss
    \/ UndoEntry
    \/ ClearAll

SpecEditor == Init /\ [][NextEditor]_vars

\* Apply has just called replaceLines
Applied == last.op = "handleApply"

\* C15: no function of the store that changes it is called while a rewrite
\* request is in flight: between the sending of a request and its response
\* the store is not called.
C15_NoMutationInFlight ==
    [][(request # None /\ request' # None) => last' = last]_vars

\* C16: no replaceLines is performed with the response of a rewrite request
\* that failed or that the user gave up (by clearing or changing the
\* selection, or closing the script) before it resolved.
C16_AbandonedNeverApplied ==
    Applied => ~last.args.request.abandoned

\* C19: Apply calls replaceLines only with a range that satisfies
\* 0 <= startIndex <= endIndex < line count: a selection made stale by a
\* change of the document is cleared before it reaches replaceLines.
C19_ApplyRangeValid ==
    Applied => ValidRange(last.before, last.args.startIndex, last.args.endIndex)

\* C20: the preview that Apply puts in was returned by a request sent for the
\* selection being replaced: the same startIndex and endIndex, over the same
\* document lines.
C20_PreviewMatchesSelection ==
    Applied =>
        /\ last.args.request.selection.startIndex = last.args.startIndex
        /\ last.args.request.selection.endIndex = last.args.endIndex
        /\ last.args.request.lines = last.before

(***************************************************************************)
(* Undo of an entry that is not the newest                                 *)
(***************************************************************************)
\* the entry was made with a range that was valid for the lines it found
EntryValid(e) ==
    /\ 0 <= e.startIndex
    /\ e.startIndex <= e.endIndex
    /\ Len(e.originalLines) = e.endIndex - e.startIndex + 1

\* edit A, then edit B, both with valid ranges and both still in the history
\* with every edit made before them: the last call was B's replaceLines, B is
\* the newest entry and A the one below it
TwoEdits ==
    /\ last.op = "replaceLines"
    /\ Len(editHistory) >= 2
    /\ Len(editHistory) = nextId
    /\ editHistory[1].id = last.args.id
    /\ editHistory[2].id = last.args.id - 1
    /\ EntryValid(editHistory[1])
    /\ EntryValid(editHistory[2])

EditA == editHistory[2]

EditB == editHistory[1]

\* B's range lies before, or after, the lines A inserted
BBeforeA == EditB.endIndex < EditA.startIndex

BAfterA == EditB.startIndex >= EditA.startIndex + Len(EditA.newLines)

\* the change B made to the number of lines
Shift == Len(EditB.newLines) - Len(EditB.originalLines)

\* where the lines A inserted start now
WhereAIs == IF BBeforeA THEN EditA.startIndex + Shift ELSE EditA.startIndex

\* the document with exactly the lines A inserted replaced by A's original lines
ExactUndoOfA ==
    SubSeq(lines, 1, WhereAIs) \o EditA.originalLines
        \o SubSeq(lines, WhereAIs + Len(EditA.newLines) + 1, Len(lines))

\* the step is undoEdit of A
UndoesA == last'.op = "undoEdit" /\ last'.args.editId = EditA.id

MaxLedgerEdits == 3

\* the texts passed to replaceLines: one that holds no line, one that holds two
LedgerTexts == {q.text : q \in EditRequests}

\* the ranges that satisfy replaceLines' precondition on a document
ValidRanges(ls) == {r \in (0..(Len(ls) - 1)) \X (0..(Len(ls) - 1)) : r[1] <= r[2]}

\* setScript seen by the observer: every line is a loaded line, owned by no
\* entry (0, ids start at 1); Upload is rendered while there are no lines
Reload ==
    /\ lines = <<>>
    /\ \E sc \in Scripts : SetScript(sc.lines, sc.characters, sc.scenes, sc.fileFormat)
    /\ ledger' = [loaded |-> lines', owner |-> [i \in DOMAIN lines' |-> 0],
                  edits |-> ledger.edits]
    /\ UNCHANGED ui

\* every entry over whose lines a call beginning at index `from` may have passed
\* is no longer clear
Passed(from) ==
    [id \in DOMAIN ledger.edits |->
        LET live == {i \in DOMAIN editHistory : editHistory[i].id = id}
        IN  IF live = {} THEN ledger.edits[id]
            ELSE LET e == editHistory[CHOOSE i \in live : TRUE]
                 IN  [ledger.edits[id] EXCEPT
                         !.clear = @ /\ from >= e.startIndex + Len(e.newLines)]]

\* replaceLines seen by the observer: the lines it found and the owners of the
\* lines it took away; the lines it inserted are owned by its entry
Observed(startIndex, endIndex, newContent) ==
    /\ ReplaceLines(startIndex, endIndex, newContent, None)
    /\ ledger' = [ledger EXCEPT
          !.owner = SpliceLines(@, startIndex, endIndex,
                                [i \in DOMAIN Classify(newContent) |-> nextId + 1]),
          !.edits = Passed(startIndex)
                        \o <<[before |-> lines,
                              owners |-> OriginalLines(ledger.owner, startIndex, endIndex),
                              clear |-> TRUE]>>]
    /\ UNCHANGED ui

\* replaceLines, called as its precondition asks
ValidReplace ==
    /\ nextId < MaxLedgerEdits
    /\ \E r \in ValidRanges(lines) : \E t \in LedgerTexts : Observed(r[1], r[2], t)

\* undoEdit of the entry at position k of the history, seen by the observer: the
\* owners of the lines the entry took away come back as the lines do
UndoAt(k) ==
    LET e == editHistory[k]
    IN  /\ UndoEdit(e.id)
        /\ ledger' = [ledger EXCEPT
              !.owner = UndoLines(@, [startIndex |-> e.startIndex,
                                      originalLines |-> ledger.edits[e.id].owners,
                                      newLines |-> e.newLines]),
              !.edits = [Passed(e.startIndex) EXCEPT ![e.id] = ledger.edits[e.id]]]
        /\ UNCHANGED ui

\* the undo button of the newest entry
UndoHead ==
    /\ editHistory # <<>>
    /\ UndoAt(1)

\* the undo button of any entry
UndoAny == \E k \in DOMAIN editHistory : UndoAt(k)

\* `Clear all`
Forget ==
    /\ editHistory # <<>>
    /\ ClearHistory
    /\ UNCHANGED <<ui, ledger>>

\* edits with valid ranges, undone newest first
NextLifo ==
    \/ Reload
    \/ ValidReplace
    \/ UndoHead

SpecLifo == Init /\ [][NextLifo]_vars

\* edits with valid ranges, undone in any order
NextDrift ==
    \/ Reload
    \/ ValidReplace
    \/ UndoAny
    \/ Forget

SpecDrift == Init /\ [][NextDrift]_vars

\* the lines left when every entry of a history is undone, newest first
RECURSIVE Rewind(_, _)
Rewind(ls, history) ==
    IF history = <<>> THEN ls
    ELSE Rewind(UndoLines(ls, Head(history)), Tail(history))

\* the last call was an undoEdit that found its entry
Undid == last.op = "undoEdit" /\ last.args.edit # None

\* C21: after a script is loaded and replaceLines is called with valid ranges,
\* undoing the newest entry again and again brings back the loaded lines, whole
\* line objects in the same order, and empties the history; each such undo leaves
\* the document that the replaceLines of its entry found.
C21_LifoUndoExact ==
    /\ [](Rewind(lines, editHistory) = ledger.loaded)
    /\ [][Undid' /\ last' # last => lines' = ledger.edits[last'.args.editId].before]_vars

\* two entries stacked on one another were undone and the loaded lines are back
C21_Witness ==
    /\ Undid
    /\ editHistory = <<>>
    /\ lines = ledger.loaded
    /\ ledger.edits[last.args.editId].before = ledger.loaded
    /\ \E id \in DOMAIN ledger.edits :
          /\ id > last.args.editId
          /\ ledger.edits[id].before # ledger.loaded
          /\ Len(ledger.edits[id].before) # Len(ledger.loaded)

(***************************************************************************)
(* Undo out of order                                                       *)
(***************************************************************************)
\* this step is an undoEdit of the entry at position k of the history
Undoes(k) == Undid' /\ last' # last /\ last'.args.editId = editHistory[k].id

\* the entries made after the entry at position k and still in the history lie
\* strictly after the lines that entry inserted
LaterEditsAfter(k) ==
    \A j \in 1..(k - 1) :
        editHistory[j].startIndex >= editHistory[k].startIndex + Len(editHistory[k].newLines)

\* the step puts e.originalLines in the place of exactly the lines e inserted
\* and leaves every other line as it was
ExactUndo(e) ==
    \E p \in 0..Len(lines) :
        /\ {i \in DOMAIN lines : ledger.owner[i] = e.id} = (p + 1)..(p + Len(e.newLines))
        /\ lines' = SubSeq(lines, 1, p) \o e.originalLines
                        \o SubSeq(lines, p + Len(e.newLines) + 1, Len(lines))

\* C22 as stated: when every replace applied after entry A and not yet undone
\* had a startIndex >= A.startIndex + A.newLines.length, undoEdit(A) replaces
\* exactly the lines A inserted with A.originalLines and leaves every other
\* line unchanged and in order.
C22_ExactWhenLaterEditsAfter ==
    [][\A k \in DOMAIN editHistory :
          Undoes(k) /\ LaterEditsAfter(k) => ExactUndo(editHistory[k])]_vars

\* C22, amended: with replaceLines called on valid ranges, when every call made
\* since A was made, be it a replaceLines or an undoEdit of another entry, began
\* at an index >= A.startIndex + A.newLines.length, undoEdit(A) replaces exactly
\* the lines A inserted with A.originalLines and leaves every other line unchanged.
C22_ExactWhenCallsAfter ==
    [][\A k \in DOMAIN editHistory :
          Undoes(k) /\ ledger.edits[editHistory[k].id].clear
              => ExactUndo(editHistory[k])]_vars

\* an entry was undone while a later entry, which changed the number of lines
\* after it, is still in the history, and after an entry later than it was undone
C22_Witness ==
    /\ Undid
    /\ ledger.edits[last.args.editId].clear
    /\ Len(last.args.edit[1].newLines) # Len(last.args.edit[1].originalLines)
    /\ Len(last.args.edit[1].newLines) > 0
    /\ \E i \in DOMAIN editHistory :
          /\ editHistory[i].id > last.args.editId
          /\ Len(editHistory[i].newLines) # Len(editHistory[i].originalLines)
    /\ \E id \in DOMAIN ledger.edits :
          /\ id > last.args.editId
          /\ \A i \in DOMAIN editHistory : editHistory[i].id # id

\* the lines of a document that lie in the window an undo of e takes away
Present(ls, e) == Min(Len(e.newLines), Max(0, Len(ls) - e.startIndex))

\* C23 as stated: in every reachable state undoEdit of an entry e of the
\* history changes the number of lines by exactly
\* e.originalLines.length - e.newLines.length, also when other edits were
\* applied or undone after e was made.
C23_UndoLengthChange ==
    [][\A k \in DOMAIN editHistory :
          Undoes(k) => Len(lines') - Len(lines)
                          = Len(editHistory[k].originalLines) - Len(editHistory[k].newLines)]_vars

\* C23, amended: undoEdit of an entry e made with a valid range changes the
\* number of lines by e.originalLines.length minus the number of lines the
\* document holds from e.startIndex on, at most e.newLines.length of them; that
\* is e.originalLines.length - e.newLines.length when
\* e.startIndex + e.newLines.length <= the number of lines, and more when edits
\* or undos since have left the document shorter.
C23_UndoLengthChangePresent ==
    [][\A k \in DOMAIN editHistory :
          Undoes(k) =>
              /\ Len(lines') - Len(lines)
                    = Len(editHistory[k].originalLines) - Present(lines, editHistory[k])
              /\ editHistory[k].startIndex + Len(editHistory[k].newLines) <= Len(lines)
                    => Len(lines') - Len(lines) = Len(editHistory[k].originalLines)
                                                    - Len(editHistory[k].newLines)]_vars

\* an entry was undone, with a later entry still in the history, in a document
\* that ended before the window of the undo did
C23_Witness ==
    /\ Undid
    /\ \E i \in DOMAIN editHistory : editHistory[i].id > last.args.editId
    /\ Len(last.args.edit[1].newLines) > 0
    /\ last.args.edit[1].startIndex + Len(last.args.edit[1].newLines) > Len(last.before)
    /\ Len(lines) - Len(last.before)
          = Len(last.args.edit[1].originalLines) - Present(last.before, last.args.edit[1])
    /\ Len(lines) - Len(last.before)
          # Len(last.args.edit[1].originalLines) - Len(last.args.edit[1].newLines)

====
